---- MODULE Spec2Model ----
(***************************************************************************)
(* A model of create_db.py: the generator of a Supabase (PostgreSQL)       *)
(* CREATE TABLE statement from a three-row CSV/TSV sheet.                  *)
(*                                                                         *)
(* Text is modelled character by character: a Python str is a sequence of  *)
(* one-character strings, so that trimming, lower-casing, quoting, CSV     *)
(* parsing and line joining are computed the way the code computes them.   *)
(* The characters "\r", "\f", "\v" and non-ASCII white space are left out  *)
(* of the alphabets: the only line break is "\n".                          *)
(***************************************************************************)
EXTENDS Integers, Sequences, FiniteSets, TLC

VARIABLES
    pc,                 \* the position of the run / of the call under study
    ident,              \* quote_ident: its argument
    sheet_type_label,   \* map_type: its first argument
    column_name,        \* map_type: its second argument
    sample,             \* sniff_delimiter: its argument
    sniffed,            \* sniff_delimiter: what csv.Sniffer gave (a delimiter or SniffFailed)
    result,             \* the value the call under study returned
    file,               \* main: the file named by --csv
    delimiter,          \* main: --delimiter (None when absent)
    text,               \* read_three_row_csv: the decoded text
    used_delim,         \* read_three_row_csv: the delimiter in use
    rows,               \* read_three_row_csv: the rows csv.reader produced
    table_name,         \* generate_create_table_sql: its arguments ...
    descriptions,
    type_labels,
    colnames,
    ddl_lines,          \* generate_create_table_sql: the list it joins
    ddl,                \* generate_create_table_sql: the text it returns
    exc,                \* main: the message of the exception raised (None: none)
    stdout,             \* main: the characters written to sys.stdout
    stderr,             \* main: the messages written to sys.stderr
    exit_code,          \* main: <<status>> once the process has ended, <<>> before
    ran                 \* history: the steps of main executed so far, in order

vars == <<pc, ident, sheet_type_label, column_name, sample, sniffed, result, file,
          delimiter, text, used_delim, rows, table_name, descriptions, type_labels,
          colnames, ddl_lines, ddl, exc, stdout, stderr, exit_code, ran>>

(***************************************************************************)
(* String literals of the source, as character sequences.                  *)
(***************************************************************************)
s_string ==
    <<"s", "t", "r", "i", "n", "g">>
s_adress ==
    <<"a", "d", "r", "e", "s", "s">>
s_text ==
    <<"t", "e", "x", "t">>
s_phone ==
    <<"p", "h", "o", "n", "e">>
s_datetime ==
    <<"d", "a", "t", "e", "t", "i", "m", "e">>
s_date ==
    <<"d", "a", "t", "e">>
s_time ==
    <<"t", "i", "m", "e">>
s_boolean ==
    <<"b", "o", "o", "l", "e", "a", "n">>
s_currency ==
    <<"c", "u", "r", "r", "e", "n", "c", "y">>
s_decimal ==
    <<"d", "e", "c", "i", "m", "a", "l">>
s_employee_list ==
    <<"e", "m", "p", "l", "o", "y", "e", "e", " ", "l", "i", "s", "t">>
s_employee_list_ordered ==
    <<"e", "m", "p", "l", "o", "y", "e", "e", " ", "l", "i", "s", "t", " ", "(", "o", "r", "d",
      "e", "r", "e", "d", " ", "a", "r", "r", "a", "y", ")">>
s_timestamptz ==
    <<"t", "i", "m", "e", "s", "t", "a", "m", "p", "t", "z">>
s_numeric_12_2 ==
    <<"n", "u", "m", "e", "r", "i", "c", "(", "1", "2", ",", "2", ")">>
s_numeric ==
    <<"n", "u", "m", "e", "r", "i", "c">>
s_jsonb ==
    <<"j", "s", "o", "n", "b">>
s_enum ==
    <<"e", "n", "u", "m">>
s_enum_multi ==
    <<"e", "n", "u", "m", " ", "(", "m", "u", "l", "t", "i", " ", "s", "e", "l", "e", "c", "t",
      ")">>
s_array_suffix ==
    <<"[", "]">>
s_warn_enum ==
    <<"E", "n", "u", "m", " ", "c", "o", "l", "u", "m", "n", " ", "w", "i", "t", "h", "o", "u",
      "t", " ", "a", " ", "n", "a", "m", "e", ";", " ", "s", "k", "i", "p", "p", "e", "d", ".">>
s_warn_enum_multi ==
    <<"E", "n", "u", "m", " ", "(", "m", "u", "l", "t", "i", " ", "s", "e", "l", "e", "c", "t",
      ")", " ", "c", "o", "l", "u", "m", "n", " ", "w", "i", "t", "h", "o", "u", "t", " ", "a",
      " ", "n", "a", "m", "e", ";", " ", "s", "k", "i", "p", "p", "e", "d", ".">>
s_unrecognized_1 ==
    <<"U", "n", "r", "e", "c", "o", "g", "n", "i", "z", "e", "d", " ", "t", "y", "p", "e", " ",
      "'">>
s_unrecognized_2 ==
    <<"'", " ", "f", "o", "r", " ", "c", "o", "l", "u", "m", "n", " ", "'">>
s_unrecognized_3 ==
    <<"'", ",", " ", "d", "e", "f", "a", "u", "l", "t", "i", "n", "g", " ", "t", "o", " ", "t",
      "e", "x", "t", ".">>
s_generated_by ==
    <<"-", "-", " ", "G", "e", "n", "e", "r", "a", "t", "e", "d", " ", "b", "y", " ", "g", "e",
      "n", "e", "r", "a", "t", "e", "_", "s", "u", "p", "a", "b", "a", "s", "e", "_", "s", "c",
      "h", "e", "m", "a", ".", "p", "y">>
s_table_comment ==
    <<"-", "-", " ", "T", "a", "b", "l", "e", ":", " ">>
s_create_table ==
    <<"c", "r", "e", "a", "t", "e", " ", "t", "a", "b", "l", "e", " ", "i", "f", " ", "n", "o",
      "t", " ", "e", "x", "i", "s", "t", "s", " ">>
s_open_paren ==
    <<" ", "(">>
s_surrogate_comment ==
    <<" ", " ", "-", "-", " ", "S", "u", "r", "r", "o", "g", "a", "t", "e", " ", "p", "r", "i",
      "m", "a", "r", "y", " ", "k", "e", "y", " ", "f", "o", "r", " ", "i", "n", "t", "e", "r",
      "n", "a", "l", " ", "u", "s", "e">>
s_id_line ==
    <<" ", " ", "i", "d", " ", "u", "u", "i", "d", " ", "p", "r", "i", "m", "a", "r", "y", " ",
      "k", "e", "y", " ", "d", "e", "f", "a", "u", "l", "t", " ", "g", "e", "n", "_", "r", "a",
      "n", "d", "o", "m", "_", "u", "u", "i", "d", "(", ")", ",">>
s_indent ==
    <<" ", " ">>
s_comma ==
    <<",">>
s_inline_comment ==
    <<" ", " ", "-", "-", " ">>
s_close ==
    <<")", ";">>
s_warnings_header ==
    <<"-", "-", " ", "W", "a", "r", "n", "i", "n", "g", "s", " ", "d", "u", "r", "i", "n", "g",
      " ", "g", "e", "n", "e", "r", "a", "t", "i", "o", "n", ":">>
s_warning_prefix ==
    <<"-", "-", " ", " ", " ">>

None == "None"

(***************************************************************************)
(* Python str primitives.                                                  *)
(***************************************************************************)
WhiteSpace == {" ", "\t", "\n"}

UpperChars == <<"A", "B", "C", "D", "E", "F", "G", "H", "I", "J", "K", "L", "M",
                "N", "O", "P", "Q", "R", "S", "T", "U", "V", "W", "X", "Y", "Z">>
LowerChars == <<"a", "b", "c", "d", "e", "f", "g", "h", "i", "j", "k", "l", "m",
                "n", "o", "p", "q", "r", "s", "t", "u", "v", "w", "x", "y", "z">>
DigitChars == <<"0", "1", "2", "3", "4", "5", "6", "7", "8", "9">>

Range(s) == {s[i] : i \in DOMAIN s}

\* str.lower(), one character
LowerChar(c) ==
    IF \E i \in DOMAIN UpperChars : UpperChars[i] = c
    THEN LowerChars[CHOOSE i \in DOMAIN UpperChars : UpperChars[i] = c]
    ELSE c

\* str.lower()
Lower(s) == [i \in DOMAIN s |-> LowerChar(s[i])]

RECURSIVE LStrip(_)
LStrip(s) ==
    IF s # <<>> /\ Head(s) \in WhiteSpace THEN LStrip(Tail(s)) ELSE s

RECURSIVE RStrip(_)
RStrip(s) ==
    IF s # <<>> /\ s[Len(s)] \in WhiteSpace THEN RStrip(SubSeq(s, 1, Len(s) - 1)) ELSE s

\* str.strip()
Strip(s) == RStrip(LStrip(s))

\* re.sub(r"\s+", " ", s): every maximal run of white space becomes one space
RECURSIVE CollapseWhiteSpace(_)
CollapseWhiteSpace(s) ==
    IF s = <<>> THEN <<>>
    ELSE IF Head(s) \in WhiteSpace
         THEN <<" ">> \o CollapseWhiteSpace(LStrip(s))
         ELSE <<Head(s)>> \o CollapseWhiteSpace(Tail(s))

\* str.replace('"', '""')
RECURSIVE DoubleQuotes(_)
DoubleQuotes(s) ==
    IF s = <<>> THEN <<>>
    ELSE (IF Head(s) = "\"" THEN <<"\"", "\"">> ELSE <<Head(s)>>) \o DoubleQuotes(Tail(s))

\* str.startswith
StartsWith(s, p) == Len(s) >= Len(p) /\ SubSeq(s, 1, Len(p)) = p

\* str.endswith
EndsWith(s, p) == Len(s) >= Len(p) /\ SubSeq(s, Len(s) - Len(p) + 1, Len(s)) = p

\* sep.join(parts)
RECURSIVE Join(_, _)
Join(parts, sep) ==
    IF parts = <<>> THEN <<>>
    ELSE IF Len(parts) = 1 THEN parts[1]
    ELSE parts[1] \o sep \o Join(Tail(parts), sep)

\* the concatenation of the pieces of an f-string
RECURSIVE Concat(_)
Concat(parts) == IF parts = <<>> THEN <<>> ELSE Head(parts) \o Concat(Tail(parts))

(***************************************************************************)
(* Type mapping & helpers                                                  *)
(***************************************************************************)
SIMPLE_TYPE_MAP ==
    (s_string :> s_text) @@ (s_adress :> s_text) @@ (s_text :> s_text) @@
    (s_phone :> s_text) @@ (s_datetime :> s_timestamptz) @@ (s_date :> s_date) @@
    (s_time :> s_time) @@ (s_boolean :> s_boolean) @@ (s_currency :> s_numeric_12_2) @@
    (s_decimal :> s_numeric) @@ (s_employee_list :> s_jsonb) @@
    (s_employee_list_ordered :> s_jsonb)

ENUM_LABELS == {s_enum, s_enum_multi}
KNOWN_LABELS == DOMAIN SIMPLE_TYPE_MAP \cup ENUM_LABELS

normalize_sheet_type(label) == CollapseWhiteSpace(Lower(Strip(label)))

\* the characters [a-z_] and [a-z0-9_] of the pattern
IdentStart == Range(LowerChars) \cup {"_"}
IdentRest == IdentStart \cup Range(DigitChars)

\* re.match(r"^[a-z_][a-z0-9_]*$", name): without re.MULTILINE, "$" matches at the
\* end of the string and also just before a line break that ends the string.
MatchesIdentPattern(name) ==
    LET body == IF name # <<>> /\ name[Len(name)] = "\n"
                THEN SubSeq(name, 1, Len(name) - 1) ELSE name
        plain(s) == /\ s # <<>>
                    /\ s[1] \in IdentStart
                    /\ \A i \in 2..Len(s) : s[i] \in IdentRest
    IN plain(name) \/ plain(body)

is_valid_identifier(name) == MatchesIdentPattern(name)

quote_ident(id) ==
    IF is_valid_identifier(id) THEN id
    ELSE <<"\"">> \o DoubleQuotes(id) \o <<"\"">>

\* the f-string of the fallback warning
UnrecognizedWarning(label, name) ==
    Concat(<<s_unrecognized_1, label, s_unrecognized_2, name, s_unrecognized_3>>)

\* the mutant of the fallback: the warning quotes the normalized key
map_type_WarnsWithKey(label, name) ==
    LET key == normalize_sheet_type(label)
    IN  IF key = s_enum
        THEN IF name = <<>>
             THEN [type |-> <<>>, warnings |-> <<s_warn_enum>>]
             ELSE [type |-> quote_ident(name), warnings |-> <<>>]
        ELSE IF key = s_enum_multi
        THEN IF name = <<>>
             THEN [type |-> <<>>, warnings |-> <<s_warn_enum_multi>>]
             ELSE [type |-> quote_ident(name) \o s_array_suffix, warnings |-> <<>>]
        ELSE IF key \in DOMAIN SIMPLE_TYPE_MAP
        THEN [type |-> SIMPLE_TYPE_MAP[key], warnings |-> <<>>]
        ELSE [type |-> s_text, warnings |-> <<UnrecognizedWarning(key, name)>>]

\* map_type returns (type, warnings)
map_type(label, name) ==
    LET key == normalize_sheet_type(label)
    IN  IF key = s_enum
        THEN IF name = <<>>
             THEN [type |-> <<>>, warnings |-> <<s_warn_enum>>]
             ELSE [type |-> quote_ident(name), warnings |-> <<>>]
        ELSE IF key = s_enum_multi
        THEN IF name = <<>>
             THEN [type |-> <<>>, warnings |-> <<s_warn_enum_multi>>]
             ELSE [type |-> quote_ident(name) \o s_array_suffix, warnings |-> <<>>]
        ELSE IF key \in DOMAIN SIMPLE_TYPE_MAP
        THEN [type |-> SIMPLE_TYPE_MAP[key], warnings |-> <<>>]
        ELSE [type |-> s_text, warnings |-> <<UnrecognizedWarning(label, name)>>]

(***************************************************************************)
(* Bounded input sets.                                                     *)
(***************************************************************************)
\* all sequences over S of length at most n
RECURSIVE SeqsUpTo(_, _)
SeqsUpTo(S, n) ==
    IF n = 0 THEN {<<>>}
    ELSE LET shorter == SeqsUpTo(S, n - 1)
         IN  shorter \cup {Append(s, c) : s \in shorter, c \in S}

callVars == <<ident, sheet_type_label, column_name, sample, sniffed, result>>
readVars == <<file, delimiter, text, used_delim, rows>>
ddlVars == <<table_name, descriptions, type_labels, colnames, ddl_lines, ddl>>
mainVars == <<exc, stdout, stderr, exit_code, ran>>

\* the values a specification gives the variables it does not use
IdleRead ==
    /\ file = None /\ delimiter = None /\ text = <<>> /\ used_delim = None
    /\ rows = <<>>

IdleDDL ==
    /\ table_name = <<>> /\ descriptions = <<>> /\ type_labels = <<>>
    /\ colnames = <<>> /\ ddl_lines = <<>> /\ ddl = <<>>

IdleMain ==
    /\ exc = None /\ stdout = <<>> /\ stderr = <<>> /\ exit_code = <<>>
    /\ ran = <<>>

(***************************************************************************)
(* quote_ident as a call: SpecQuote                                        *)
(***************************************************************************)
MaxIdentLen == 3
IdentAlphabet == {"a", "z", "_", "7", "A", "\"", " ", "\n"}

InitQuote ==
    /\ pc = "call"
    /\ ident \in SeqsUpTo(IdentAlphabet, MaxIdentLen)
    /\ sheet_type_label = <<>> /\ column_name = <<>>
    /\ sample = <<>> /\ sniffed = None /\ result = <<>>
    /\ IdleRead /\ IdleDDL /\ IdleMain

CallQuoteIdent ==
    /\ pc = "call"
    /\ result' = quote_ident(ident)
    /\ pc' = "returned"
    /\ UNCHANGED <<ident, sheet_type_label, column_name, sample, sniffed>>
    /\ UNCHANGED <<readVars, ddlVars, mainVars>>

NextQuote == CallQuoteIdent

SpecQuote == InitQuote /\ [][NextQuote]_vars

\* the spec's "simple" name: a lowercase letter or underscore, then lowercase
\* letters, digits or underscores, and nothing else
IsSimpleName(name) ==
    /\ name # <<>>
    /\ name[1] \in IdentStart
    /\ \A i \in 2..Len(name) : name[i] \in IdentRest

\* C6: quote_ident(name) returns name unchanged exactly when name is simple, and
\* every other name wrapped in double quotes with each embedded double quote doubled.
C6_QuoteIdentExactlySimple ==
    pc = "returned" =>
        /\ (result = ident) <=> IsSimpleName(ident)
        /\ ~IsSimpleName(ident) => result = <<"\"">> \o DoubleQuotes(ident) \o <<"\"">>

(***************************************************************************)
(* map_type as a call: SpecMapType                                         *)
(***************************************************************************)
MaxPad == 1
\* type labels as a sheet holds them: in any case, with inner runs of white space
LabelWords ==
    {<<"S", "t", "r", "i", "n", "g">>,
     <<"A", "D", "R", "E", "S", "S">>,
     <<"t", "e", "x", "t">>,
     <<"P", "h", "o", "n", "e">>,
     <<"D", "a", "t", "e", "T", "i", "m", "e">>,
     <<"d", "a", "t", "e">>,
     <<"T", "i", "m", "e">>,
     <<"B", "o", "o", "l", "e", "a", "n">>,
     <<"C", "u", "r", "r", "e", "n", "c", "y">>,
     <<"D", "e", "c", "i", "m", "a", "l">>,
     <<"E", "m", "p", "l", "o", "y", "e", "e", " ", " ", "L", "i", "s", "t">>,
     <<"e", "m", "p", "l", "o", "y", "e", "e", " ", "l", "i", "s", "t", " ", "(", "o", "r", "d", "e", "r", "e", "d", " ", "a", "r", "r", "a", "y", ")">>,
     <<"E", "n", "u", "m">>,
     <<"E", "n", "u", "m", " ", "(", "M", "u", "l", "t", "i", "\t", "S", "e", "l", "e", "c", "t", ")">>,
     <<"F", "o", "o">>,
     <<>>,
     <<"e", "n", "u", "m", "x">>,
     <<"D", "a", "t", "e", " ", "x">>}
ColumnNames == {<<>>, <<"b", "a", "r">>, <<"B", " ", "c">>}
Pads == SeqsUpTo({" ", "\t"}, MaxPad)
SheetLabels == {l \o w \o r : l \in Pads, w \in LabelWords, r \in Pads}

InitMapType ==
    /\ pc = "call"
    /\ sheet_type_label \in SheetLabels
    /\ column_name \in ColumnNames
    /\ ident = <<>> /\ sample = <<>> /\ sniffed = None
    /\ result = [type |-> <<>>, warnings |-> <<>>]
    /\ IdleRead /\ IdleDDL /\ IdleMain

CallMapType ==
    /\ pc = "call"
    /\ result' = map_type(sheet_type_label, column_name)
    /\ pc' = "returned"
    /\ UNCHANGED <<ident, sheet_type_label, column_name, sample, sniffed>>
    /\ UNCHANGED <<readVars, ddlVars, mainVars>>

NextMapType == CallMapType

SpecMapType == InitMapType /\ [][NextMapType]_vars

\* C7: a label whose normalized form is neither an enum label nor a key of the
\* simple-type table maps to text with exactly one warning that quotes the
\* original, untrimmed label; a label whose normalized form is a key of the table
\* maps to the table's type with no warning.
C7_FallbackAndSimpleTypes ==
    pc = "returned" =>
        LET key == normalize_sheet_type(sheet_type_label)
        IN  /\ key \notin KNOWN_LABELS =>
                /\ result.type = s_text
                /\ result.warnings =
                       <<s_unrecognized_1 \o sheet_type_label \o s_unrecognized_2
                         \o column_name \o s_unrecognized_3>>
            /\ key \in DOMAIN SIMPLE_TYPE_MAP =>
                /\ result.type = SIMPLE_TYPE_MAP[key]
                /\ result.warnings = <<>>

\* C7 witness: an unrecognized label with white space around it got the fallback,
\* and some padded, mixed-case label hit the table
C7_Witness ==
    /\ pc = "returned"
    /\ sheet_type_label = <<" ", "F", "o", "o", "\t">>
    /\ column_name = <<"b", "a", "r">>
    /\ result.type = s_text
    /\ Len(result.warnings) = 1

(***************************************************************************)
(* csv.reader with the default (excel) dialect and the given delimiter:    *)
(* quotechar '"', doublequote, no escapechar, not strict.  The reader's    *)
(* state machine (START_RECORD, START_FIELD, IN_FIELD, IN_QUOTED_FIELD,    *)
(* QUOTE_IN_QUOTED_FIELD) run over the characters of the text; a line      *)
(* break outside a quoted field ends the record.                           *)
(***************************************************************************)
CsvStep(st, c, d) ==
    LET endRecord(fs) == [state |-> "START_RECORD", field |-> <<>>, fields |-> <<>>,
                          rows |-> Append(st.rows, fs)]
        saveField == [st EXCEPT !.state = "START_FIELD", !.field = <<>>,
                                !.fields = Append(st.fields, st.field)]
        addChar(next) == [st EXCEPT !.state = next, !.field = Append(st.field, c)]
    IN  CASE st.state = "START_RECORD" ->
                 IF c = "\n" THEN endRecord(<<>>)
                 ELSE IF c = "\"" THEN [st EXCEPT !.state = "IN_QUOTED_FIELD"]
                 ELSE IF c = d THEN saveField
                 ELSE addChar("IN_FIELD")
          [] st.state = "START_FIELD" ->
                 IF c = "\n" THEN endRecord(Append(st.fields, st.field))
                 ELSE IF c = "\"" THEN [st EXCEPT !.state = "IN_QUOTED_FIELD"]
                 ELSE IF c = d THEN saveField
                 ELSE addChar("IN_FIELD")
          [] st.state = "IN_FIELD" ->
                 IF c = "\n" THEN endRecord(Append(st.fields, st.field))
                 ELSE IF c = d THEN saveField
                 ELSE addChar("IN_FIELD")
          [] st.state = "IN_QUOTED_FIELD" ->
                 IF c = "\"" THEN [st EXCEPT !.state = "QUOTE_IN_QUOTED_FIELD"]
                 ELSE addChar("IN_QUOTED_FIELD")
          [] st.state = "QUOTE_IN_QUOTED_FIELD" ->
                 IF c = "\"" THEN addChar("IN_QUOTED_FIELD")
                 ELSE IF c = d THEN saveField
                 ELSE IF c = "\n" THEN endRecord(Append(st.fields, st.field))
                 ELSE addChar("IN_FIELD")

RECURSIVE CsvRun(_, _, _, _)
CsvRun(txt, i, st, d) ==
    IF i > Len(txt)
    THEN IF st.state = "START_RECORD" THEN st.rows
         ELSE Append(st.rows, Append(st.fields, st.field))
    ELSE CsvRun(txt, i + 1, CsvStep(st, txt[i], d), d)

\* [row for row in csv.reader(io.StringIO(txt), delimiter=d)]
CsvReader(txt, d) ==
    CsvRun(txt, 1, [state |-> "START_RECORD", field |-> <<>>, fields |-> <<>>,
                    rows |-> <<>>], d)

(***************************************************************************)
(* Delimiter detection                                                     *)
(***************************************************************************)
POSSIBLE_DELIMS == <<",", "\t", ";", "|">>

\* str.splitlines(), the line breaks dropped
RECURSIVE SplitLines(_)
SplitLines(s) ==
    IF s = <<>> THEN <<>>
    ELSE IF "\n" \notin Range(s) THEN <<s>>
    ELSE LET i == CHOOSE k \in DOMAIN s :
                      s[k] = "\n" /\ \A m \in 1..(k - 1) : s[m] # "\n"
         IN  <<SubSeq(s, 1, i - 1)>> \o SplitLines(SubSeq(s, i + 1, Len(s)))

NotBlank(s) == Strip(s) # <<>>

\* [ln for ln in lines if ln.strip()]
RECURSIVE KeepNotBlank(_)
KeepNotBlank(lines) ==
    IF lines = <<>> THEN <<>>
    ELSE (IF NotBlank(Head(lines)) THEN <<Head(lines)>> ELSE <<>>)
         \o KeepNotBlank(Tail(lines))

\* lines = [ln for ln in sample.splitlines() if ln.strip()]
NonBlankLines(smp) == KeepNotBlank(SplitLines(smp))

\* len(list(csv.reader([first_line], delimiter=d))[0])
FieldCount(line, d) == Len(CsvReader(line, d)[1])

\* the mutant of the loop: "count >= best_count", the last candidate wins ties
RECURSIVE BestDelim_LastWinsTies(_, _, _, _)
BestDelim_LastWinsTies(first_line, k, best_delim, best_count) ==
    IF k > Len(POSSIBLE_DELIMS) THEN best_delim
    ELSE LET count == FieldCount(first_line, POSSIBLE_DELIMS[k])
         IN  IF count >= best_count
             THEN BestDelim_LastWinsTies(first_line, k + 1, POSSIBLE_DELIMS[k], count)
             ELSE BestDelim_LastWinsTies(first_line, k + 1, best_delim, best_count)

\* the loop over POSSIBLE_DELIMS from its k-th candidate on
RECURSIVE BestDelim(_, _, _, _)
BestDelim(first_line, k, best_delim, best_count) ==
    IF k > Len(POSSIBLE_DELIMS) THEN best_delim
    ELSE LET count == FieldCount(first_line, POSSIBLE_DELIMS[k])
         IN  IF count > best_count
             THEN BestDelim(first_line, k + 1, POSSIBLE_DELIMS[k], count)
             ELSE BestDelim(first_line, k + 1, best_delim, best_count)

\* the fallback of sniff_delimiter
FallbackDelimiter(smp) ==
    LET lines == NonBlankLines(smp)
    IN  IF lines = <<>> THEN None
        ELSE BestDelim(lines[1], 1, None, 0)

\* csv.Sniffer().sniff(sample, delimiters=",\t;|") is library code: it raises or
\* returns a dialect whose delimiter is one of the candidates that occur in the
\* sample.  Which of the two it does is left open.
SniffFailed == "SniffFailed"
SnifferOutcomes(smp) ==
    {SniffFailed} \cup {c \in Range(POSSIBLE_DELIMS) : c \in Range(smp)}

\* the values sniff_delimiter(smp) can return
sniff_delimiter(smp) ==
    {IF o = SniffFailed THEN FallbackDelimiter(smp) ELSE o : o \in SnifferOutcomes(smp)}

(***************************************************************************)
(* sniff_delimiter as a call: SpecSniff                                    *)
(***************************************************************************)
MaxSampleLen == 3
SampleAlphabet == {"a", ",", "\t", ";", "|", "\"", " ", "\n"}

InitSniff ==
    /\ pc = "call"
    /\ sample \in SeqsUpTo(SampleAlphabet, MaxSampleLen)
    /\ sniffed = None /\ result = None
    /\ ident = <<>> /\ sheet_type_label = <<>> /\ column_name = <<>>
    /\ IdleRead /\ IdleDDL /\ IdleMain

\* lines 107-113: the Sniffer answers, or raises and the exception is swallowed
TrySniffer ==
    /\ pc = "call"
    /\ \E o \in SnifferOutcomes(sample) :
          /\ sniffed' = o
          /\ IF o = SniffFailed
             THEN pc' = "fallback" /\ UNCHANGED result
             ELSE pc' = "returned" /\ result' = o
    /\ UNCHANGED <<ident, sheet_type_label, column_name, sample>>
    /\ UNCHANGED <<readVars, ddlVars, mainVars>>

\* lines 114-126
RunFallback ==
    /\ pc = "fallback"
    /\ result' = FallbackDelimiter(sample)
    /\ pc' = "returned"
    /\ UNCHANGED <<ident, sheet_type_label, column_name, sample, sniffed>>
    /\ UNCHANGED <<readVars, ddlVars, mainVars>>

NextSniff == TrySniffer \/ RunFallback

SpecSniff == InitSniff /\ [][NextSniff]_vars

Candidates == Range(POSSIBLE_DELIMS)
Priority(c) == CHOOSE k \in DOMAIN POSSIBLE_DELIMS : POSSIBLE_DELIMS[k] = c

\* c gives the greatest field count on the line, and no earlier candidate gives as many
IsEarliestGreatest(line, c) ==
    /\ c \in Candidates
    /\ \A e \in Candidates : FieldCount(line, e) <= FieldCount(line, c)
    /\ \A e \in Candidates :
           Priority(e) < Priority(c) => FieldCount(line, e) < FieldCount(line, c)

\* C5 as stated: after a failed primary sniff the fallback returns the candidate
\* with the greatest field count on the first non-blank line (earliest candidate
\* on ties), and none when there is no non-blank line or every candidate splits
\* the line into a single field.
C5_FallbackNoneOnSingleField ==
    (pc = "returned" /\ sniffed = SniffFailed) =>
        LET lines == NonBlankLines(sample)
        IN  IF lines = <<>> \/ \A c \in Candidates : FieldCount(lines[1], c) <= 1
            THEN result = None
            ELSE IsEarliestGreatest(lines[1], result)

\* C5 amended: none only when there is no non-blank line; otherwise always the
\* earliest candidate with the greatest field count (the comma when every
\* candidate gives a single field).
C5_FallbackEarliestGreatest ==
    (pc = "returned" /\ sniffed = SniffFailed) =>
        LET lines == NonBlankLines(sample)
        IN  IF lines = <<>>
            THEN result = None
            ELSE IsEarliestGreatest(lines[1], result)

\* C5 witness: the fallback ran on a sample whose first non-blank line every
\* candidate leaves whole
C5_Witness ==
    /\ pc = "returned" /\ sniffed = SniffFailed
    /\ sample = <<"\t", "\n", "a">>
    /\ result = ","


(***************************************************************************)
(* DDL generation                                                          *)
(***************************************************************************)
Min(a, b) == IF a < b THEN a ELSE b

\* lines 197-201
Preamble(table_ident) ==
    <<s_generated_by,
      s_table_comment \o table_ident,
      s_create_table \o table_ident \o s_open_paren,
      s_surrogate_comment,
      s_id_line>>

\* line 220
CommentText(desc) ==
    IF Strip(desc) # <<>> THEN CollapseWhiteSpace(Strip(desc)) ELSE <<>>

\* the mutant of the column pass: map_type is called, and its warnings kept,
\* before the name is looked at
RECURSIVE ColumnPassFrom_MapsUnnamed(_, _, _, _)
ColumnPassFrom_MapsUnnamed(descs, types, names, i) ==
    IF i > Min(Len(descs), Min(Len(types), Len(names)))
    THEN [cols |-> <<>>, warnings |-> <<>>]
    ELSE LET rest == ColumnPassFrom_MapsUnnamed(descs, types, names, i + 1)
             col == Strip(names[i])
             typelab == Strip(types[i])
             mt == map_type(typelab, col)
         IN  IF col = <<>> \/ mt.type = <<>>
             THEN [cols |-> rest.cols, warnings |-> mt.warnings \o rest.warnings]
             ELSE [cols |-> <<[def_sql |-> quote_ident(col) \o <<" ">> \o mt.type,
                               comment_text |-> CommentText(descs[i])]>> \o rest.cols,
                   warnings |-> mt.warnings \o rest.warnings]

ColumnPass_MapsUnnamed(descs, types, names) ==
    ColumnPassFrom_MapsUnnamed(descs, types, names, 1)

\* lines 207-221, from position i of zip(descriptions, type_labels, colnames) on
RECURSIVE ColumnPassFrom(_, _, _, _)
ColumnPassFrom(descs, types, names, i) ==
    IF i > Min(Len(descs), Min(Len(types), Len(names)))
    THEN [cols |-> <<>>, warnings |-> <<>>]
    ELSE LET rest == ColumnPassFrom(descs, types, names, i + 1)
             col == Strip(names[i])
             typelab == Strip(types[i])
         IN  IF col = <<>> THEN rest
             ELSE LET mt == map_type(typelab, col)
                  IN  IF mt.type = <<>>
                      THEN [cols |-> rest.cols, warnings |-> mt.warnings \o rest.warnings]
                      ELSE [cols |-> <<[def_sql |-> quote_ident(col) \o <<" ">> \o mt.type,
                                        comment_text |-> CommentText(descs[i])]>>
                                     \o rest.cols,
                            warnings |-> mt.warnings \o rest.warnings]

\* lines 203-221: (cols, warnings)
ColumnPass(descs, types, names) == ColumnPassFrom(descs, types, names, 1)

\* the mutant of is_last: the index is compared with the number of input positions
IsLast_OfInput(i, cols) == i = Len(colnames) - 1

\* line 225, i counted from 0
IsLast(i, cols) == i = Len(cols) - 1

\* lines 226-230, i counted from 0
ColumnLine(i, cols) ==
    s_indent \o cols[i + 1].def_sql
    \o (IF ~IsLast(i, cols) THEN s_comma ELSE <<>>)
    \o (IF cols[i + 1].comment_text # <<>>
        THEN s_inline_comment \o cols[i + 1].comment_text ELSE <<>>)

\* lines 224-231
ColumnLines(cols) == [j \in 1..Len(cols) |-> ColumnLine(j - 1, cols)]

\* lines 235-239
WarningsBlock(warnings) ==
    IF warnings # <<>>
    THEN <<<<>>, s_warnings_header>>
         \o [j \in 1..Len(warnings) |-> s_warning_prefix \o warnings[j]]
    ELSE <<>>

\* the mutant of the preamble: the surrogate-key line is left out
DdlLines_NoIdLine(table, descs, types, names) ==
    LET pass == ColumnPass(descs, types, names)
    IN  SubSeq(Preamble(quote_ident(table)), 1, 4) \o ColumnLines(pass.cols)
        \o <<s_close>> \o WarningsBlock(pass.warnings)

\* ddl_lines when generate_create_table_sql returns
DdlLines(table, descs, types, names) ==
    LET pass == ColumnPass(descs, types, names)
    IN  Preamble(quote_ident(table)) \o ColumnLines(pass.cols)
        \o <<s_close>> \o WarningsBlock(pass.warnings)

generate_create_table_sql(table, descs, types, names) ==
    Join(DdlLines(table, descs, types, names), <<"\n">>)

(***************************************************************************)
(* generate_create_table_sql as a call: SpecDDL                            *)
(***************************************************************************)
MaxCols == 2
TableNames == {<<"l", "e", "a", "d", "s">>, <<"M", "y", "\"", "T">>}
DescCells == {<<>>, <<" ", "d", "\n", " ", "e">>}
TypeCells ==
    {<<"E", "n", "u", "m">>,
     <<"e", "n", "u", "m", " ", " ", "(", "M", "u", "l", "t", "i", " ", "s", "e", "l", "e", "c", "t", ")">>,
     <<"F", "o", "o">>,
     <<" ", "d", "a", "t", "e">>}
\* a quoted CSV cell may hold line breaks: this one holds the surrogate-key line
InjectingName == <<"x", "\n">> \o s_id_line \o <<"\n", "y">>
NameCells == {<<>>, <<" ">>, <<"a", " ">>, InjectingName}

InitDDL ==
    /\ pc = "call"
    /\ table_name \in TableNames
    /\ \E n \in 0..MaxCols :
          /\ descriptions \in [1..n -> DescCells]
          /\ type_labels \in [1..n -> TypeCells]
          /\ colnames \in [1..n -> NameCells]
    /\ ddl_lines = <<>> /\ ddl = <<>>
    /\ ident = <<>> /\ sheet_type_label = <<>> /\ column_name = <<>>
    /\ sample = <<>> /\ sniffed = None /\ result = None
    /\ IdleRead /\ IdleMain

CallGenerate ==
    /\ pc = "call"
    /\ ddl_lines' = DdlLines(table_name, descriptions, type_labels, colnames)
    /\ ddl' = generate_create_table_sql(table_name, descriptions, type_labels, colnames)
    /\ pc' = "returned"
    /\ UNCHANGED <<table_name, descriptions, type_labels, colnames>>
    /\ UNCHANGED <<callVars, readVars, mainVars>>

NextDDL == CallGenerate

SpecDDL == InitDDL /\ [][NextDDL]_vars

\* the positions whose column name is not empty after trimming, and the j-th of them
Named == {i \in DOMAIN colnames : Strip(colnames[i]) # <<>>}
NthNamed(j) == CHOOSE i \in Named : Cardinality({m \in Named : m < i}) = j - 1

\* the definition the claim expects of the column at input position i
ExpectedDef(i) ==
    quote_ident(Strip(colnames[i])) \o <<" ">>
    \o map_type(Strip(type_labels[i]), Strip(colnames[i])).type

\* the positions that produce an "Unrecognized type" warning
Unrecognized ==
    {i \in Named : normalize_sheet_type(Strip(type_labels[i])) \notin KNOWN_LABELS}

CountEq(seq, x) == Cardinality({j \in DOMAIN seq : seq[j] = x})

HasLineBreak(s) == "\n" \in Range(s)

\* no text that reaches a line of the statement holds a line break
NoLineBreaks ==
    /\ ~HasLineBreak(table_name)
    /\ \A i \in Named : ~HasLineBreak(Strip(colnames[i]))
                        /\ ~HasLineBreak(Strip(type_labels[i]))

\* C1 as stated: the returned text contains exactly one surrogate-key line and
\* ends with ");".
C1_OneIdLineAndEndsWithClose ==
    pc = "returned" =>
        /\ CountEq(SplitLines(ddl), s_id_line) = 1
        /\ EndsWith(ddl, s_close)

\* C1 amended: the joined list holds exactly one surrogate-key entry, and the
\* text exactly one such line when no table or column name or type label holds a
\* line break; the text ends with ");" exactly when no warning was recorded, and
\* otherwise ");" is followed by a blank line, the warnings header and one
\* "--   " line per warning, which end the text.
C1_OneIdLineCloseBeforeWarnings ==
    pc = "returned" =>
        /\ CountEq(ddl_lines, s_id_line) = 1
        /\ NoLineBreaks => /\ CountEq(SplitLines(ddl), s_id_line) = 1
                           /\ CountEq(SplitLines(ddl), s_close) = 1
        /\ EndsWith(ddl, s_close) <=> Unrecognized = {}
        /\ LET k == 5 + Cardinality(Named) + 1
               w == Cardinality(Unrecognized)
           IN  /\ ddl_lines[k] = s_close
               /\ IF w = 0 THEN Len(ddl_lines) = k
                  ELSE /\ Len(ddl_lines) = k + 2 + w
                       /\ ddl_lines[k + 1] = <<>>
                       /\ ddl_lines[k + 2] = s_warnings_header
                       /\ \A j \in (k + 3)..(k + 2 + w) :
                              StartsWith(ddl_lines[j], s_warning_prefix)
                       /\ EndsWith(ddl, <<"\n">> \o ddl_lines[k + 2 + w])

\* C1 witness: a statement with a warnings block after ");"
C1_Witness ==
    /\ pc = "returned"
    /\ Unrecognized # {}
    /\ NoLineBreaks
    /\ \E k \in DOMAIN ddl_lines : ddl_lines[k] = s_close /\ k < Len(ddl_lines)

\* C2: every emitted column line but the last has a comma directly after its
\* definition, and the last has none (only its optional inline comment follows),
\* whatever positions were dropped for an empty name.  The column lines are the
\* entries 6 .. 5 + k of the joined list, which are the lines of the text when no
\* name or label holds a line break.
C2_CommasOnlyBetweenColumns ==
    pc = "returned" =>
        LET k == Cardinality(Named)
        IN  /\ Len(ddl_lines) >= 5 + k + 1
            /\ ddl_lines[5 + k + 1] = s_close
            /\ NoLineBreaks => SplitLines(ddl) = ddl_lines
            /\ \A j \in 1..k :
                  LET line == ddl_lines[5 + j]
                      def == s_indent \o ExpectedDef(NthNamed(j))
                      after == SubSeq(line, Len(def) + 1, Len(line))
                  IN  /\ StartsWith(line, def)
                      /\ IF j < k
                         THEN /\ StartsWith(after, s_comma)
                              /\ Len(after) > 1 =>
                                     StartsWith(Tail(after), s_inline_comment)
                         ELSE after = <<>> \/ StartsWith(after, s_inline_comment)

\* C2 witness: the only emitted column, with a comment, before a dropped position
C2_Witness ==
    /\ pc = "returned"
    /\ Len(colnames) = 2
    /\ Named = {1}
    /\ descriptions[1] # <<>>

RemoveAt(s, i) == SubSeq(s, 1, i - 1) \o SubSeq(s, i + 1, Len(s))

\* C10: a position whose column name is empty after trimming contributes nothing:
\* the text is the one generated with that position absent from all three rows.
C10_UnnamedPositionIsAbsent ==
    pc = "returned" =>
        \A i \in DOMAIN colnames :
            Strip(colnames[i]) = <<>> =>
                ddl = generate_create_table_sql(table_name, RemoveAt(descriptions, i),
                                                RemoveAt(type_labels, i),
                                                RemoveAt(colnames, i))

\* C10 witness: an unnamed position with an unrecognized label and a description,
\* beside a named one
C10_Witness ==
    /\ pc = "returned"
    /\ \E i \in DOMAIN colnames :
          /\ colnames[i] = <<" ">>
          /\ normalize_sheet_type(type_labels[i]) \notin KNOWN_LABELS
          /\ descriptions[i] # <<>>
    /\ Named # {}

\* the positions with an enum label and an empty column name
UnnamedEnums ==
    {i \in DOMAIN colnames : /\ colnames[i] = <<>>
                             /\ normalize_sheet_type(type_labels[i]) \in ENUM_LABELS}

EnumSkipWarning(label) ==
    IF normalize_sheet_type(label) = s_enum THEN s_warn_enum ELSE s_warn_enum_multi

Max(a, b) == IF a > b THEN a ELSE b

\* the mutant of max_len: the column-name row is not counted
MaxLen_WithoutNames(desc, types, names) == Max(Len(desc), Len(types))

\* line 164
MaxLen(desc, types, names) == Max(Len(desc), Max(Len(types), Len(names)))

\* row += [""] * (n - len(row)): a count below one adds nothing
PadRight(row, n) ==
    IF n > Len(row) THEN row \o [j \in 1..(n - Len(row)) |-> <<>>] ELSE row

\* the mutant of looks_like_types: half of the cells is enough
looks_like_types_Half(cells) ==
    LET non_empty == {j \in DOMAIN cells : Strip(cells[j]) # <<>>}
        hits == {j \in non_empty :
                    \/ normalize_sheet_type(cells[j]) \in KNOWN_LABELS
                    \/ StartsWith(normalize_sheet_type(cells[j]), s_enum)}
    IN  non_empty # {} /\ 2 * Cardinality(hits) >= Cardinality(non_empty)

\* lines 170-176; hits / len(non_empty) >= 0.55 compared as 100 * hits >= 55 * len
\* (the quotient is the correctly rounded double, and so is the literal 0.55)
looks_like_types(cells) ==
    LET non_empty == {j \in DOMAIN cells : Strip(cells[j]) # <<>>}
        hits == {j \in non_empty :
                    \/ normalize_sheet_type(cells[j]) \in KNOWN_LABELS
                    \/ StartsWith(normalize_sheet_type(cells[j]), s_enum)}
    IN  non_empty # {} /\ 100 * Cardinality(hits) >= 55 * Cardinality(non_empty)

\* lines 158-181: what read_three_row_csv returns for the parsed rows
NormalizedRows(parsed) ==
    LET max_len == MaxLen(parsed[1], parsed[2], parsed[3])
        desc == PadRight(parsed[1], max_len)
        types == PadRight(parsed[2], max_len)
        names == PadRight(parsed[3], max_len)
    IN  IF ~looks_like_types(types) /\ looks_like_types(names)
        THEN <<desc, names, types>>
        ELSE <<desc, types, names>>

\* the messages of the exceptions main can catch
FileNotFound == "[Errno 2] No such file or directory"
CannotDecode == "'utf-8' codec can't decode byte"
NoDelimiter ==
    "Could not detect a delimiter. Try providing --delimiter (e.g., --delimiter '\\t')."
TooFewRows(n) ==
    CASE n = 0 -> "Expected a file with at least 3 rows, got 0."
      [] n = 1 -> "Expected a file with at least 3 rows, got 1."
      [] n = 2 -> "Expected a file with at least 3 rows, got 2."

(***************************************************************************)
(* main: Spec, one run of the pipeline                                     *)
(***************************************************************************)
MaxRowCells == 2
SheetCells == {<<" ">>, <<"d", "a", "t", "e">>, <<"x">>, <<"E", "n", "u", "m", "X">>}
DescRows == {<<<<" ">>>>, <<<<"d">>, <<>>, <<>>>>}
SheetRows == SeqsUpTo(SheetCells, MaxRowCells)
ExtraRow == <<<<"z">>>>

\* a sheet of two, three or four rows, written with commas and line breaks
Sheets ==
    {<<d, r2>> : d \in DescRows, r2 \in SheetRows}
    \cup {<<d, r2, r3>> \o x : d \in DescRows, r2 \in SheetRows, r3 \in SheetRows,
                               x \in {<<>>, ExtraRow}}

FileText(sheet) == Join([k \in DOMAIN sheet |-> Join(sheet[k], <<",">>)], <<"\n">>)

Files ==
    {[exists |-> FALSE, decodable |-> FALSE, content |-> <<>>],
     [exists |-> TRUE, decodable |-> FALSE, content |-> <<>>]}
    \cup {[exists |-> TRUE, decodable |-> TRUE, content |-> FileText(sh)] : sh \in Sheets}

InitMain ==
    /\ pc = "open"
    /\ file \in Files
    /\ delimiter \in {None, ","}
    /\ table_name = <<"t">>
    /\ text = <<>> /\ used_delim = None /\ rows = <<>>
    /\ descriptions = <<>> /\ type_labels = <<>> /\ colnames = <<>>
    /\ ddl_lines = <<>> /\ ddl = <<>>
    /\ ident = <<>> /\ sheet_type_label = <<>> /\ column_name = <<>>
    /\ sample = <<>> /\ sniffed = None /\ result = None
    /\ IdleMain

\* an exception leaves the try block of main
Raise(step, message) ==
    /\ exc' = message
    /\ pc' = "except"
    /\ ran' = Append(ran, step)

\* lines 139-140
OpenAndRead ==
    /\ pc = "open"
    /\ IF ~file.exists
       THEN Raise("open", FileNotFound)
       ELSE pc' = "decode" /\ ran' = Append(ran, "open") /\ UNCHANGED exc
    /\ UNCHANGED <<file, delimiter, text, used_delim, rows>>
    /\ UNCHANGED <<callVars, ddlVars, stdout, stderr, exit_code>>

\* line 143
Decode ==
    /\ pc = "decode"
    /\ IF ~file.decodable
       THEN Raise("decode", CannotDecode) /\ UNCHANGED text
       ELSE /\ text' = file.content
            /\ pc' = "delimiter" /\ ran' = Append(ran, "decode") /\ UNCHANGED exc
    /\ UNCHANGED <<file, delimiter, used_delim, rows>>
    /\ UNCHANGED <<callVars, ddlVars, stdout, stderr, exit_code>>

\* lines 146-150
DetermineDelimiter ==
    /\ pc = "delimiter"
    /\ \E u \in (IF delimiter # None THEN {delimiter} ELSE sniff_delimiter(text)) :
          /\ used_delim' = u
          /\ IF u = None
             THEN Raise("delimiter", NoDelimiter)
             ELSE pc' = "parse" /\ ran' = Append(ran, "delimiter") /\ UNCHANGED exc
    /\ UNCHANGED <<file, delimiter, text, rows>>
    /\ UNCHANGED <<callVars, ddlVars, stdout, stderr, exit_code>>

\* lines 152-156
ParseRows ==
    /\ pc = "parse"
    /\ rows' = CsvReader(text, used_delim)
    /\ IF Len(rows') < 3
       THEN Raise("parse", TooFewRows(Len(rows')))
       ELSE pc' = "normalize" /\ ran' = Append(ran, "parse") /\ UNCHANGED exc
    /\ UNCHANGED <<file, delimiter, text, used_delim>>
    /\ UNCHANGED <<callVars, ddlVars, stdout, stderr, exit_code>>

\* lines 158-181 and line 256: read_three_row_csv returns (desc, types, cols)
NormalizeAndReturn ==
    /\ pc = "normalize"
    /\ LET r == NormalizedRows(rows)
       IN  /\ descriptions' = r[1]
           /\ type_labels' = r[2]
           /\ colnames' = r[3]
    /\ pc' = "generate" /\ ran' = Append(ran, "normalize")
    /\ UNCHANGED <<table_name, ddl_lines, ddl>>
    /\ UNCHANGED <<callVars, readVars, exc, stdout, stderr, exit_code>>

\* line 257
Generate ==
    /\ pc = "generate"
    /\ ddl_lines' = DdlLines(table_name, descriptions, type_labels, colnames)
    /\ ddl' = generate_create_table_sql(table_name, descriptions, type_labels, colnames)
    /\ pc' = "write" /\ ran' = Append(ran, "generate")
    /\ UNCHANGED <<table_name, descriptions, type_labels, colnames>>
    /\ UNCHANGED <<callVars, readVars, exc, stdout, stderr, exit_code>>

\* line 258, and main returns
WriteStdout ==
    /\ pc = "write"
    /\ stdout' = stdout \o ddl \o <<"\n">>
    /\ exit_code' = <<0>>
    /\ pc' = "exited" /\ ran' = Append(ran, "write")
    /\ UNCHANGED <<callVars, readVars, ddlVars, exc, stderr>>

\* the mutant of the handler: the message goes to standard output
HandleException_ToStdout ==
    /\ pc = "except"
    /\ stdout' = stdout \o <<"E", "r", "r", "o", "r">>
    /\ exit_code' = <<1>>
    /\ pc' = "exited" /\ ran' = Append(ran, "except")
    /\ UNCHANGED <<callVars, readVars, ddlVars, exc, stderr>>

\* lines 259-261
HandleException ==
    /\ pc = "except"
    /\ stderr' = Append(stderr, <<"Error: ", exc, "\n">>)
    /\ exit_code' = <<1>>
    /\ pc' = "exited" /\ ran' = Append(ran, "except")
    /\ UNCHANGED <<callVars, readVars, ddlVars, exc, stdout>>

Next ==
    \/ OpenAndRead
    \/ Decode
    \/ DetermineDelimiter
    \/ ParseRows
    \/ NormalizeAndReturn
    \/ Generate
    \/ WriteStdout
    \/ HandleException

Spec == InitMain /\ [][Next]_vars

\* read_three_row_csv has returned
Returned == pc \in {"generate", "write"} \/ (pc = "exited" /\ exc = None)

\* the run has ended with the statement on standard output
EndedWithDdl ==
    /\ exit_code = <<0>>
    /\ stderr = <<>>
    /\ stdout = generate_create_table_sql(table_name, descriptions, type_labels, colnames)
                \o <<"\n">>

\* the run has ended with one message on standard error
EndedWithError ==
    /\ exit_code = <<1>>
    /\ Len(stderr) = 1
    /\ stdout = <<>>

\* what makes read_three_row_csv raise: no file, a decode failure, no detectable
\* delimiter, fewer than three parsed rows
ReadFails ==
    \/ ~file.exists
    \/ ~file.decodable
    \/ used_delim = None
    \/ Len(rows) < 3

\* C3: every run ends with the complete statement on standard output, or (when
\* the read fails) with one message on standard error, a non-zero exit and
\* nothing on standard output; before that nothing is written, and no step runs
\* twice.
C3_AllOrNothing ==
    /\ pc = "exited" => /\ EndedWithDdl \/ EndedWithError
                        /\ EndedWithError <=> ReadFails
                        /\ ~(EndedWithDdl /\ EndedWithError)
    /\ pc # "exited" => stdout = <<>> /\ stderr = <<>> /\ exit_code = <<>>
    /\ \A i, j \in DOMAIN ran : ran[i] = ran[j] => i = j
    /\ pc \in {"open", "decode", "delimiter", "parse", "normalize", "generate", "write",
               "except", "exited"}

\* C3 witness: a run that failed for want of a third row after parsing two
C3_Witness ==
    /\ pc = "exited"
    /\ Len(rows) = 2
    /\ stderr = <<<<"Error: ", "Expected a file with at least 3 rows, got 2.", "\n">>>>
    /\ stdout = <<>>

\* r is p with empty cells added on the right
IsPadOf(r, p) ==
    /\ Len(r) >= Len(p)
    /\ SubSeq(r, 1, Len(p)) = p
    /\ \A j \in (Len(p) + 1)..Len(r) : r[j] = <<>>

\* C8: the returned rows have one length, the greatest length of the first three
\* parsed rows, and each is one of those rows with empty cells added on the right,
\* swapped or not.
C8_PaddedToLongest ==
    Returned =>
        LET longest == CHOOSE n \in {Len(rows[1]), Len(rows[2]), Len(rows[3])} :
                           \A k \in 1..3 : Len(rows[k]) <= n
        IN  /\ Len(descriptions) = longest
            /\ Len(type_labels) = longest
            /\ Len(colnames) = longest
            /\ IsPadOf(descriptions, rows[1])
            /\ \/ IsPadOf(type_labels, rows[2]) /\ IsPadOf(colnames, rows[3])
               \/ IsPadOf(type_labels, rows[3]) /\ IsPadOf(colnames, rows[2])

\* C8 witness: every row was extended, and the last two came back swapped
C8_Witness ==
    /\ Returned
    /\ Len(rows[2]) < Len(rows[3])
    /\ Len(rows[3]) < Len(rows[1])
    /\ type_labels # colnames
    /\ IsPadOf(type_labels, rows[3])

\* the claim's looksLikeTypes, over the cells that count as non-empty
TypeLike(cell) ==
    LET n == normalize_sheet_type(cell)
    IN  n \in DOMAIN SIMPLE_TYPE_MAP \/ n = s_enum \/ StartsWith(n, s_enum)

RatioAtLeast55(cells, counted) ==
    /\ counted # {}
    /\ 100 * Cardinality({j \in counted : TypeLike(cells[j])}) >= 55 * Cardinality(counted)

\* "non-empty" read as written: the cell is not the empty string
LooksLikeTypesNonEmpty(cells) ==
    RatioAtLeast55(cells, {j \in DOMAIN cells : cells[j] # <<>>})

\* "non-empty" as the code has it: the cell is not empty after trimming
LooksLikeTypesNonBlank(cells) ==
    RatioAtLeast55(cells, {j \in DOMAIN cells : Strip(cells[j]) # <<>>})

SwappedIff(cond) ==
    LET n == Len(descriptions)
    IN  /\ descriptions = PadRight(rows[1], n)
        /\ IF cond
           THEN type_labels = PadRight(rows[3], n) /\ colnames = PadRight(rows[2], n)
           ELSE type_labels = PadRight(rows[2], n) /\ colnames = PadRight(rows[3], n)

\* C9 as stated: the second and third rows come back exchanged iff the second does
\* not look like types and the third does, where a row looks like types iff it has
\* a non-empty cell and at least 0.55 of its non-empty cells are type-like; the
\* first row stays first.
C9_SwapIffNonEmptyRatio ==
    Returned =>
        SwappedIff(~LooksLikeTypesNonEmpty(rows[2]) /\ LooksLikeTypesNonEmpty(rows[3]))

\* C9 amended: the same with "non-empty" meaning not empty after trimming white
\* space: a cell of blanks is left out of both counts.
C9_SwapIffNonBlankRatio ==
    Returned =>
        SwappedIff(~LooksLikeTypesNonBlank(rows[2]) /\ LooksLikeTypesNonBlank(rows[3]))

\* C9 witness: the third row looks like types only because its blank cell is not
\* counted, and the rows came back exchanged
C9_Witness ==
    /\ Returned
    /\ rows[2] = <<<<"x">>>>
    /\ rows[3] = <<<<" ">>, <<"d", "a", "t", "e">>>>
    /\ type_labels = rows[3]
    /\ colnames = <<<<"x">>, <<>>>>
====
